---- MODULE Spec2Model ----
(***************************************************************************)
(* AEOS dashboard (src/app.py): the background poller that turns the SOAP  *)
(* findEvent query into pushed "new_events" batches, the watermark         *)
(* _last_event_time, the cached SOAP client, the /api/events/recent        *)
(* request handler and the Socket.IO subscribers.                          *)
(***************************************************************************)
EXTENDS Integers, Sequences, FiniteSets, TLC

(* ---------------- bounds of the model ---------------- *)
MaxTime == 2
MaxEvents == 2
MaxCycles == 2
MaxSessions == 2
MaxRequests == 1
MaxLimit == 2

(* ---------------- program constants ---------------- *)
\* max_results of the poller's fetch and the cap of the request's limit; the
\* event logs of the model are shorter than the former, the latter's limits
\* do cut them.
PollMaxResults == 20
RecentLimitCap == 500

Times == 0..MaxTime
Sessions == 1..MaxSessions

(* ---------------- values ---------------- *)
\* Optional[str]: None is <<>>, a string s is <<s>>
None == <<>>
Some(s) == <<s>>

\* The DateTime attribute of an EventInfo. t is the time of the event on the
\* server (what the DateTimeRange filter matches); kind is how the attribute
\* reaches the program: a datetime, absent (None), the ISO text of the time,
\* or a text datetime.fromisoformat rejects.
DT(t) == [kind |-> "datetime", t |-> t]
NoDT(t) == [kind |-> "none", t |-> t]
IsoDT(t) == [kind |-> "str", t |-> t]
BadDT(t) == [kind |-> "garbage", t |-> t]

Min2(a, b) == IF a <= b THEN a ELSE b
SetMax(S) == CHOOSE m \in S : \A x \in S : x <= m
Take(s, n) == SubSeq(s, 1, Min2(n, Len(s)))

(* ---------------- str methods used by classify_event ---------------- *)
IsSpace(c) == c \in {" ", "\t", "\n", "\r", "\f"}

RECURSIVE LStrip(_)
LStrip(s) == IF Len(s) > 0 /\ IsSpace(SubSeq(s, 1, 1)) THEN LStrip(Tail(s)) ELSE s

RECURSIVE RStrip(_)
RStrip(s) ==
  IF Len(s) > 0 /\ IsSpace(SubSeq(s, Len(s), Len(s)))
  THEN RStrip(SubSeq(s, 1, Len(s) - 1)) ELSE s

strip(s) == RStrip(LStrip(s))

LowerChar(c) ==
  CASE c = "A" -> "a" [] c = "B" -> "b" [] c = "C" -> "c" [] c = "D" -> "d"
    [] c = "E" -> "e" [] c = "F" -> "f" [] c = "G" -> "g" [] c = "H" -> "h"
    [] c = "I" -> "i" [] c = "J" -> "j" [] c = "K" -> "k" [] c = "L" -> "l"
    [] c = "M" -> "m" [] c = "N" -> "n" [] c = "O" -> "o" [] c = "P" -> "p"
    [] c = "Q" -> "q" [] c = "R" -> "r" [] c = "S" -> "s" [] c = "T" -> "t"
    [] c = "U" -> "u" [] c = "V" -> "v" [] c = "W" -> "w" [] c = "X" -> "x"
    [] c = "Y" -> "y" [] c = "Z" -> "z" [] OTHER -> c

RECURSIVE lower(_)
lower(s) == IF Len(s) = 0 THEN "" ELSE LowerChar(SubSeq(s, 1, 1)) \o lower(Tail(s))

startswith(s, prefix) ==
  Len(s) >= Len(prefix) /\ SubSeq(s, 1, Len(prefix)) = prefix

(* ---------------- AEOS event type classification ---------------- *)
GRANTED_TYPES ==
  {"Access granted", "Access granted (first person)",
   "Access granted with extended unlock"}

DENIED_TYPES ==
  {"Access denied", "Access denied: badge not valid",
   "Access denied: badge blocked", "Access denied: badge unknown",
   "Access denied: no authorisation", "Access denied: antipassback",
   "Access denied: wrong time schedule"}

ALARM_TYPES == {"Door forced open", "Door held open", "Tailgating"}

\* classify_event without the strip() of its first line.
classify_event_unstripped(event_type_name) ==
  LET name == event_type_name
      low == lower(name)
  IN  IF name \in GRANTED_TYPES \/ startswith(low, "access granted") THEN "granted"
      ELSE IF name \in DENIED_TYPES \/ startswith(low, "access denied") THEN "denied"
      ELSE IF name \in ALARM_TYPES THEN "alarm"
      ELSE "other"

classify_event(event_type_name) ==
  LET name == strip(event_type_name)
      low == lower(name)
  IN  IF name \in GRANTED_TYPES \/ startswith(low, "access granted") THEN "granted"
      ELSE IF name \in DENIED_TYPES \/ startswith(low, "access denied") THEN "denied"
      ELSE IF name \in ALARM_TYPES THEN "alarm"
      ELSE "other"

(* ---------------- state ---------------- *)
VARIABLES
  now,               \* datetime.utcnow(), in ticks
  sourceUp,          \* the AEOS web service answers
  source,            \* the AEOS event log, in the order findEvent returns it
  _soap_client,      \* 0 is None, else the id of the cached Zeep client
  clientsCreated,    \* how many Zeep clients were constructed
  _last_event_time,  \* the watermark: None, or Some(t)
  pollerPc,          \* "init", "sleep", "create", "fetch"
  pollerTo,          \* the To bound of the poller's findEvent in flight
  cycles,            \* poll cycles finished
  last,              \* what the last finished poll cycle did
  published,         \* the new_events payloads emitted so far, in order
  delivered,         \* Ids of the events emitted in some new_events payload
  started,           \* utcnow() when the poller started
  handled,           \* Ids of the events findEvent has returned to the poller
  coarseSeen,        \* the server has answered with an event older than From
  reqPc,             \* request thread: "idle", "create", "fetch"
  reqArgs,           \* limit and since of the request in progress
  requests,          \* requests served
  response,          \* the last response of /api/events/recent
  session,           \* per Socket.IO session: "new", "connected", "gone"
  inbox,             \* per session: the messages delivered to it
  joinedAt,          \* per session: Len(published) when it connected
  leftAt             \* per session: Len(published) when it disconnected

srcVars == <<now, sourceUp, source>>
clientVars == <<_soap_client, clientsCreated>>
pollVars == <<_last_event_time, pollerPc, pollerTo, cycles, last, published, delivered,
              started, handled, coarseSeen>>
reqVars == <<reqPc, reqArgs, requests, response>>
subVars == <<session, inbox, joinedAt, leftAt>>
vars == <<srcVars, clientVars, pollVars, reqVars, subVars>>

Watermark == _last_event_time[1]

(* ---------------- events ---------------- *)
\* One EventInfo as soap_find_events returns it: jsonable tells whether every
\* attribute copied by getattr is a value json.dumps(default=serialize) accepts.
EventInfo(id, name, dt, jsonable) ==
  [Id |-> id, EventTypeName |-> name, DateTime |-> dt, jsonable |-> jsonable]

PollLabels == {" Access granted", "Tailgating"}

\* Event type names of every kind the classifier tells apart.
ClassifyLabels ==
  {"Access granted", " Access granted (first person)\n", "access GRANTED by guard",
   "Access denied: badge blocked", "ACCESS DENIED", "Access denied - tailgating",
   "Door forced open", "Door held open ", "Tailgating", "tailgating",
   "Unknown Maintenance Event", "No access granted", ""}

\* classify_event on the event type names the event log can hold, computed once.
KnownLabels == PollLabels \cup ClassifyLabels \cup {"Access denied", "Door held open"}
Category == [l \in KnownLabels |-> classify_event(l)]

\* What the event log may record: a well-formed event, or an event with one defect.
EventShapes ==
  {[EventTypeName |-> Some(l), DateTime |-> DT(t), jsonable |-> TRUE] :
      l \in PollLabels, t \in Times}
  \cup {[EventTypeName |-> None, DateTime |-> DT(t), jsonable |-> TRUE] : t \in Times}
  \cup {[EventTypeName |-> Some("Access denied"), DateTime |-> d, jsonable |-> TRUE] :
          d \in {NoDT(t) : t \in Times} \cup {IsoDT(t) : t \in Times}
                \cup {BadDT(t) : t \in Times}}
  \cup {[EventTypeName |-> Some("Door held open"), DateTime |-> DT(t), jsonable |-> FALSE] :
          t \in Times}

(* ---------------- soap_find_events ---------------- *)
\* The server's findEvent: the first max_results records of the log whose time
\* is in [From, To]. slack > 0: the server matches From at its own, coarser
\* time resolution and so returns records from before from_dt.
findEvent(log, from_dt, to_dt, max_results, slack) ==
  Take(SelectSeq(log, LAMBDA e : e.DateTime.t >= from_dt - slack /\ e.DateTime.t <= to_dt),
       max_results)

\* soap_find_events after get_soap_client returned: the list of dicts, or []
\* when findEvent raised (the except of lines 144-146).
soap_find_events(log, up, from_dt, to_dt, max_results, slack) ==
  IF up THEN findEvent(log, from_dt, to_dt, max_results, slack) ELSE <<>>

(* ---------------- the body of one poll cycle ---------------- *)
\* evt["_status"] = classify_event(evt.get("EventTypeName", "")): raises
\* AttributeError on None (None has no strip).
ClassifyRaises(events) == \E i \in 1..Len(events) : events[i].EventTypeName = None

Classified(events) ==
  [i \in 1..Len(events) |->
     [Id |-> events[i].Id, EventTypeName |-> events[i].EventTypeName,
      DateTime |-> events[i].DateTime, jsonable |-> events[i].jsonable,
      status |-> Category[events[i].EventTypeName[1]]]]

\* max((e["DateTime"] for e in events if e.get("DateTime")), default=wm), then
\* fromisoformat when the maximum is a str. Comparing a str with a datetime
\* raises TypeError; the unparseable text sorts above every ISO text and makes
\* fromisoformat raise ValueError.
Latest(events, wm) ==
  LET vals == SelectSeq(events, LAMBDA e : e.DateTime.kind # "none")
      kinds == {vals[i].DateTime.kind : i \in 1..Len(vals)}
      top == SetMax({vals[i].DateTime.t : i \in 1..Len(vals)})
  IN  IF Len(vals) = 0 THEN [raised |-> FALSE, t |-> wm]
      ELSE IF kinds = {"datetime"} THEN [raised |-> FALSE, t |-> top]
      ELSE IF "datetime" \in kinds THEN [raised |-> TRUE, t |-> wm]
      ELSE IF "garbage" \in kinds THEN [raised |-> TRUE, t |-> wm]
      ELSE [raised |-> FALSE, t |-> top]

\* json.dumps(events, default=serialize): raises TypeError on a value that is
\* neither JSON nor a datetime.
DumpsRaises(events) == \E i \in 1..Len(events) : ~events[i].jsonable

\* serialize: a datetime becomes its isoformat text.
serialize(dt) == IF dt.kind = "datetime" THEN IsoDT(dt.t) ELSE dt

Payload(events) ==
  [i \in 1..Len(events) |->
     [Id |-> events[i].Id, EventTypeName |-> events[i].EventTypeName,
      DateTime |-> serialize(events[i].DateTime), status |-> events[i].status]]

\* The watermark the cycle leaves, given the one it started from.
NewWatermark(events, wm) ==
  IF events = <<>> \/ ClassifyRaises(events) THEN wm ELSE Latest(events, wm).t

\* The cycle emits new_events only when no step before the emit raised.
Emits(events) ==
  /\ events # <<>>
  /\ ~ClassifyRaises(events)
  /\ ~Latest(events, 0).raised
  /\ ~DumpsRaises(events)

CycleRaised(events) ==
  /\ events # <<>>
  /\ \/ ClassifyRaises(events)
     \/ Latest(events, 0).raised
     \/ DumpsRaises(events)

\* A broadcast that also queues the payload for the sessions not connected.
BroadcastToAll(box, payload) ==
  [s \in Sessions |-> Append(box[s], [name |-> "new_events", data |-> payload])]

\* socketio.emit("new_events", payload, namespace="/"): one copy to every
\* session connected at that moment.
Broadcast(box, payload) ==
  [s \in Sessions |->
     IF session[s] = "connected"
     THEN Append(box[s], [name |-> "new_events", data |-> payload])
     ELSE box[s]]

NoArgs == [limit |-> 0, since |-> 0, to |-> 0]

NoCycle == [outcome |-> "none", before |-> 0, pubBefore |-> 0, batch |-> <<>>,
            sourceFailed |-> FALSE]

(* ---------------- initial state: the module is loaded ---------------- *)
\* The module's globals and the threads before they run; no session yet.
Loaded ==
  /\ _soap_client = 0
  /\ clientsCreated = 0
  /\ _last_event_time = None
  /\ pollerPc = "init"
  /\ pollerTo = 0
  /\ cycles = 0
  /\ last = NoCycle
  /\ published = <<>>
  /\ delivered = {}
  /\ started = 0
  /\ handled = {}
  /\ coarseSeen = FALSE
  /\ reqPc = "idle"
  /\ reqArgs = NoArgs
  /\ requests = 0
  /\ response = [status |-> 0, events |-> <<>>]
  /\ session = [s \in Sessions |-> "new"]
  /\ inbox = [s \in Sessions |-> <<>>]
  /\ joinedAt = [s \in Sessions |-> 0]
  /\ leftAt = [s \in Sessions |-> 0]

Init ==
  /\ now = 0
  /\ sourceUp = TRUE
  /\ source = <<>>
  /\ Loaded

(* ---------------- the environment ---------------- *)
Tick ==
  /\ now < MaxTime
  /\ now' = now + 1
  /\ UNCHANGED <<sourceUp, source, clientVars, pollVars, reqVars, subVars>>

\* The access-control system records an event; its Id is assigned by the source.
SourceRecord(shape) ==
  /\ Len(source) < MaxEvents
  /\ source' = Append(source, EventInfo(Len(source) + 1, shape.EventTypeName,
                                         shape.DateTime, shape.jsonable))
  /\ UNCHANGED <<now, sourceUp, clientVars, pollVars, reqVars, subVars>>

SourceFlip ==
  /\ sourceUp' = ~sourceUp
  /\ UNCHANGED <<now, source, clientVars, pollVars, reqVars, subVars>>

(* ---------------- get_soap_client ---------------- *)
\* if _soap_client is None: the caller goes on to construct a client,
\* else it uses the cached one.
NeedsClient == _soap_client = 0

\* SoapClient(wsdl=...) succeeded: _soap_client = the new client.
ClientCreated ==
  /\ sourceUp
  /\ clientsCreated' = clientsCreated + 1
  /\ _soap_client' = clientsCreated + 1

(* ---------------- poll_new_events ---------------- *)
\* _last_event_time = datetime.utcnow(), before the loop.
PollerStart ==
  /\ pollerPc = "init"
  /\ _last_event_time' = Some(now)
  /\ started' = now
  /\ pollerPc' = "sleep"
  /\ UNCHANGED <<srcVars, clientVars, pollerTo, cycles, last, published, delivered, handled,
                 coarseSeen, reqVars, subVars>>

\* socketio.sleep returns; soap_find_events enters get_soap_client.
PollWake ==
  /\ pollerPc = "sleep"
  /\ cycles < MaxCycles
  /\ pollerPc' = IF NeedsClient THEN "create" ELSE "fetch"
  /\ pollerTo' = now
  /\ UNCHANGED <<srcVars, clientVars, _last_event_time, cycles, last, published, delivered,
                 started, handled, coarseSeen, reqVars, subVars>>

PollClientCreated ==
  /\ pollerPc = "create"
  /\ ClientCreated
  /\ pollerPc' = "fetch"
  /\ pollerTo' = now
  /\ UNCHANGED <<srcVars, _last_event_time, cycles, last, published, delivered, started,
                 handled, coarseSeen, reqVars, subVars>>

\* SoapClient(...) raised: get_soap_client is called outside the try of
\* soap_find_events, so the exception reaches the except of the poll loop.
PollClientFailed ==
  /\ pollerPc = "create"
  /\ ~sourceUp
  /\ pollerPc' = "sleep"
  /\ cycles' = cycles + 1
  /\ last' = [outcome |-> "failed", before |-> Watermark, pubBefore |-> Len(published),
              batch |-> <<>>, sourceFailed |-> TRUE]
  /\ UNCHANGED <<srcVars, clientVars, _last_event_time, pollerTo, published, delivered,
                 started, handled, coarseSeen, subVars, reqVars>>

\* findEvent returned (or raised) and the rest of the loop body ran.
PollCycle(slack) ==
  /\ pollerPc = "fetch"
  /\ LET events == soap_find_events(source, sourceUp, Watermark, pollerTo,
                                    PollMaxResults, slack)
     IN  /\ _last_event_time' = Some(NewWatermark(events, Watermark))
         /\ published' = IF Emits(events)
                         THEN Append(published, Payload(Classified(events)))
                         ELSE published
         /\ delivered' = IF Emits(events)
                         THEN delivered \cup {events[i].Id : i \in 1..Len(events)}
                         ELSE delivered
         /\ inbox' = IF Emits(events)
                     THEN Broadcast(inbox, Payload(Classified(events)))
                     ELSE inbox
         /\ last' = [outcome |-> IF ~sourceUp \/ CycleRaised(events) THEN "failed"
                                 ELSE IF events = <<>> THEN "empty" ELSE "published",
                     before |-> Watermark, pubBefore |-> Len(published),
                     batch |-> events, sourceFailed |-> ~sourceUp]
         /\ handled' = handled \cup {events[i].Id : i \in 1..Len(events)}
         /\ coarseSeen' = (coarseSeen \/
                           \E i \in 1..Len(events) : events[i].DateTime.t < Watermark)
  /\ pollerPc' = "sleep"
  /\ cycles' = cycles + 1
  /\ UNCHANGED <<srcVars, clientVars, pollerTo, started, reqVars, session, joinedAt, leftAt>>

(* ---------------- /api/events/recent ---------------- *)
\* limit = min(int(limit), 500); since = utcnow() - hours; then
\* soap_find_events enters get_soap_client.
RecentBegin(limit, hours) ==
  /\ reqPc = "idle"
  /\ requests < MaxRequests
  /\ reqArgs' = [limit |-> Min2(limit, RecentLimitCap), since |-> now - hours, to |-> now]
  /\ reqPc' = IF NeedsClient THEN "create" ELSE "fetch"
  /\ UNCHANGED <<srcVars, clientVars, pollVars, requests, response, subVars>>

RecentClientCreated ==
  /\ reqPc = "create"
  /\ ClientCreated
  /\ reqPc' = "fetch"
  /\ reqArgs' = [reqArgs EXCEPT !.to = now]
  /\ UNCHANGED <<srcVars, pollVars, requests, response, subVars>>

\* SoapClient(...) raised inside the handler's try: 500.
RecentClientFailed ==
  /\ reqPc = "create"
  /\ ~sourceUp
  /\ reqPc' = "idle"
  /\ reqArgs' = NoArgs
  /\ requests' = requests + 1
  /\ response' = [status |-> 500, events |-> <<>>]
  /\ UNCHANGED <<srcVars, clientVars, pollVars, subVars>>

RecentResponse(events) ==
  IF ClassifyRaises(events) \/ DumpsRaises(events)
  THEN [status |-> 500, events |-> <<>>]
  ELSE [status |-> 200, events |-> Payload(Classified(events))]

RecentFinish(slack) ==
  /\ reqPc = "fetch"
  /\ response' = RecentResponse(soap_find_events(source, sourceUp, reqArgs.since,
                                                 reqArgs.to, reqArgs.limit, slack))
  /\ reqPc' = "idle"
  /\ reqArgs' = NoArgs
  /\ requests' = requests + 1
  /\ UNCHANGED <<srcVars, clientVars, pollVars, subVars>>

(* ---------------- Socket.IO sessions ---------------- *)
\* handle_connect: emit("status", ...) to the connecting session only.
handle_connect(s) ==
  /\ session[s] = "new"
  /\ session' = [session EXCEPT ![s] = "connected"]
  /\ inbox' = [inbox EXCEPT ![s] = Append(@, [name |-> "status", data |-> <<>>])]
  /\ joinedAt' = [joinedAt EXCEPT ![s] = Len(published)]
  /\ UNCHANGED <<srcVars, clientVars, pollVars, reqVars, leftAt>>

handle_disconnect(s) ==
  /\ session[s] = "connected"
  /\ session' = [session EXCEPT ![s] = "gone"]
  /\ leftAt' = [leftAt EXCEPT ![s] = Len(published)]
  /\ UNCHANGED <<srcVars, clientVars, pollVars, reqVars, inbox, joinedAt>>

(* ---------------- specifications ---------------- *)
\* Well-formed events only, and one whose payload json.dumps rejects.
PlainShapes ==
  {[EventTypeName |-> Some("Tailgating"), DateTime |-> DT(0), jsonable |-> TRUE]}
  \cup {[EventTypeName |-> Some("Door held open"), DateTime |-> DT(0), jsonable |-> FALSE]}

LabelShapes ==
  {[EventTypeName |-> Some(l), DateTime |-> DT(0), jsonable |-> TRUE] : l \in ClassifyLabels}
  \cup {[EventTypeName |-> None, DateTime |-> DT(0), jsonable |-> TRUE]}

RecordAny == \E shape \in EventShapes : SourceRecord(shape)
RecordPlain == \E shape \in PlainShapes : SourceRecord(shape)

Poller ==
  \/ PollerStart
  \/ PollWake
  \/ PollClientCreated
  \/ PollClientFailed
  \/ \E slack \in 0..1 : PollCycle(slack)

Recent ==
  \/ \E limit \in 1..MaxLimit, hours \in 0..MaxTime : RecentBegin(limit, hours)
  \/ RecentClientCreated
  \/ RecentClientFailed
  \/ \E slack \in 0..1 : RecentFinish(slack)

Subscribers ==
  \/ \E s \in Sessions : handle_connect(s)
  \/ \E s \in Sessions : handle_disconnect(s)

\* The poller against the event source.
Next == Tick \/ SourceFlip \/ RecordAny \/ Poller

Spec == Init /\ [][Next]_vars

\* The poller running for ever against a source that answers as
\* fetchEventsSince must, is down when the process starts or not, and once up
\* stays up. The thread is always scheduled: socketio.sleep
\* returns after POLL_INTERVAL, and the transport's timeouts (15 s) make
\* SoapClient(...) and findEvent return or raise. HistoryReset is bookkeeping:
\* it empties the record of past payloads so that the poller can go on.
HistoryReset ==
  /\ pollerPc = "sleep"
  /\ cycles = MaxCycles
  /\ cycles' = 0
  /\ published' = <<>>
  /\ UNCHANGED <<srcVars, clientVars, _last_event_time, pollerPc, pollerTo, last, delivered,
                 started, handled, coarseSeen, reqVars, subVars>>

PollerLive ==
  \/ PollerStart
  \/ PollWake
  \/ PollClientCreated
  \/ PollClientFailed
  \/ PollCycle(0)
  \/ HistoryReset

SourceRecovers ==
  /\ ~sourceUp
  /\ sourceUp' = TRUE
  /\ UNCHANGED <<now, source, clientVars, pollVars, reqVars, subVars>>

LiveShapes ==
  {[EventTypeName |-> Some("Tailgating"), DateTime |-> DT(t), jsonable |-> TRUE] :
      t \in Times}
  \cup {[EventTypeName |-> Some("Access denied"), DateTime |-> BadDT(0), jsonable |-> TRUE],
        [EventTypeName |-> None, DateTime |-> DT(0), jsonable |-> TRUE],
        [EventTypeName |-> Some("Door held open"), DateTime |-> DT(0), jsonable |-> FALSE]}

RecordLive == \E shape \in LiveShapes : SourceRecord(shape)

InitLive ==
  /\ now = 0
  /\ sourceUp \in BOOLEAN
  /\ source = <<>>
  /\ Loaded

NextLive == Tick \/ SourceRecovers \/ RecordLive \/ PollerLive

SpecLive ==
  InitLive /\ [][NextLive]_vars /\ WF_vars(PollerLive) /\ WF_vars(SourceRecovers)

\* The poller and the Socket.IO sessions.
NextBroadcast == SourceFlip \/ RecordPlain \/ Poller \/ Subscribers

SpecBroadcast == Init /\ [][NextBroadcast]_vars

\* The poller thread and a request thread serving /api/events/recent, over an
\* event log that already holds one or two events when the process starts.
LabelLogs ==
  {<<EventInfo(1, a.EventTypeName, a.DateTime, a.jsonable)>> : a \in LabelShapes}
  \cup {<<EventInfo(1, a.EventTypeName, a.DateTime, a.jsonable),
          EventInfo(2, Some("Door held open "), DT(0), TRUE)>> : a \in LabelShapes}

InitRecent ==
  /\ now = 0
  /\ sourceUp = TRUE
  /\ source \in LabelLogs
  /\ Loaded

NextRecent == SourceFlip \/ Poller \/ Recent

SpecRecent == InitRecent /\ [][NextRecent]_vars

(* ---------------- the claims ---------------- *)
PollerRunning == pollerPc # "init"

\* The timestamps of a batch that the program can read as a time.
HasTime(e) == e.DateTime.kind \in {"datetime", "str"}
BatchTimes(events) == {events[i].DateTime.t : i \in {j \in 1..Len(events) : HasTime(events[j])}}
BatchIds(events) == [i \in 1..Len(events) |-> events[i].Id]

\* The source answered as fetchEventsSince must: no event older than since.
InRange(events, since) == \A i \in 1..Len(events) : events[i].DateTime.t >= since

\* C1: the watermark never moves backward: after every poll cycle, whatever
\* batch the source returned, it is at least what it was before the cycle.
C1_WatermarkMonotone ==
  (PollerRunning /\ last.outcome # "none") => Watermark >= last.before

\* C2: a poll cycle that failed (the source call or a step of the body raised)
\* left the watermark where it was and published no batch (stated for the
\* cycles whose batch holds no event older than since).
C2_FailedCycleChangesNothing ==
  (PollerRunning /\ last.outcome = "failed" /\ InRange(last.batch, last.before))
    => (Watermark = last.before /\ Len(published) = last.pubBefore)

\* C3: after a successful poll that returned events, the watermark is the
\* maximum of its value before the poll and the batch's latest timestamp.
C3_WatermarkIsMax ==
  (PollerRunning /\ last.outcome = "published")
    => Watermark = SetMax({last.before} \cup BatchTimes(last.batch))

\* C5: no event is skipped: every event of the source that the poller has
\* fetched, with a timestamp after the poller's start and at or before the
\* watermark, has been published in some new_events batch.
C5_NothingSkipped ==
  PollerRunning =>
    \A i \in 1..Len(source) :
      (/\ source[i].Id \in handled
       /\ HasTime(source[i])
       /\ source[i].DateTime.t > started
       /\ source[i].DateTime.t <= Watermark)
        => source[i].Id \in delivered

\* C6: the published stream is deduplicated: with a source that returns only
\* events with timestamp >= since, no event (here: none that carries a
\* timestamp) is in two new_events batches.
C6_NoDuplicates ==
  ~coarseSeen =>
    \A m, n \in 1..Len(published) :
      m # n => \A i \in 1..Len(published[m]), j \in 1..Len(published[n]) :
                 HasTime(published[m][i]) => published[m][i].Id # published[n][j].Id

MalformedTime(e) == e.DateTime.kind \in {"none", "garbage"}

\* C7: a batch with an event whose timestamp is missing or unparseable (and no
\* other defect) is not aborted: the cycle publishes the batch and the watermark
\* is the maximum timestamp of the well-formed events.
C7_MalformedEventTolerated ==
  (/\ PollerRunning
   /\ last.outcome # "none"
   /\ ~last.sourceFailed
   /\ InRange(last.batch, last.before)
   /\ \E i \in 1..Len(last.batch) : MalformedTime(last.batch[i])
   /\ \A i \in 1..Len(last.batch) :
        last.batch[i].EventTypeName # None /\ last.batch[i].jsonable)
    => /\ last.outcome = "published"
       /\ BatchIds(published[Len(published)]) = BatchIds(last.batch)
       /\ BatchTimes(last.batch) # {} => Watermark = SetMax(BatchTimes(last.batch))

NewEvents(box) ==
  LET msgs == SelectSeq(box, LAMBDA m : m.name = "new_events")
  IN  [i \in 1..Len(msgs) |-> msgs[i].data]

EmittedWhileConnected(s) ==
  IF session[s] = "new" THEN <<>>
  ELSE SubSeq(published, joinedAt[s] + 1,
              IF session[s] = "gone" THEN leftAt[s] ELSE Len(published))

\* C4: no buffering, no replay: a session gets exactly the new_events payloads
\* emitted while it was connected, each once, in the order they were emitted,
\* and a payload holds the events of its batch in the order the source
\* returned them.
C4_LiveOnlyExactlyOnce ==
  /\ \A s \in Sessions : NewEvents(inbox[s]) = EmittedWhileConnected(s)
  /\ (last.outcome = "published")
       => BatchIds(published[Len(published)]) = BatchIds(last.batch)

\* Two batches were emitted, one session saw both, another connected between
\* them, and a session that left got none of the later one.
C4_Witness ==
  /\ Len(published) >= 2
  /\ \E s \in Sessions :
       session[s] = "connected" /\ joinedAt[s] = 0 /\ Len(NewEvents(inbox[s])) >= 2
  /\ \E s \in Sessions :
       /\ session[s] # "new"
       /\ joinedAt[s] >= 1
       /\ Len(NewEvents(inbox[s])) >= 1
       /\ Len(NewEvents(inbox[s])) < Len(published)

\* C9: the cached SOAP client is constructed at most once, and the poller and
\* the request thread never have a findEvent in flight at the same time.
C9_OneClientOneFetch ==
  /\ clientsCreated <= 1
  /\ ~(pollerPc = "fetch" /\ reqPc = "fetch")

\* The category rule: on the trimmed name, granted if in the granted list or
\* its lowercase form starts with "access granted", else denied if in the denied
\* list or starting with "access denied", else alarm if it is one of the three
\* alarm names, else other.
RightCategory(e) ==
  LET trimmed == strip(e.EventTypeName[1])
      lowered == lower(trimmed)
      granted == trimmed \in GRANTED_TYPES \/ startswith(lowered, "access granted")
      denied == trimmed \in DENIED_TYPES \/ startswith(lowered, "access denied")
      alarm == trimmed \in {"Door forced open", "Door held open", "Tailgating"}
  IN  /\ e.status = "granted" <=> granted
      /\ e.status = "denied" <=> (~granted /\ denied)
      /\ e.status = "alarm" <=> (~granted /\ ~denied /\ alarm)
      /\ e.status = "other" <=> (~granted /\ ~denied /\ ~alarm)

WellFormed(e) == e.EventTypeName # None /\ e.DateTime.kind = "datetime" /\ e.jsonable

Fresh(id) ==
  /\ PollerRunning
  /\ id <= Len(source)
  /\ WellFormed(source[id])
  /\ source[id].DateTime.t >= Watermark
  /\ source[id].DateTime.t <= now

\* C8: the poll loop is self-healing: it attempts a fetch again and again, and
\* once the source is up again, every new well-formed event it holds (timestamp
\* between the watermark and now) is published by a later cycle.
C8_SelfHealing ==
  /\ []<>(pollerPc \in {"create", "fetch"})
  /\ \A id \in 1..MaxEvents : Fresh(id) ~> (id \in delivered)

====
